---- MODULE Spec2Model ----
(***************************************************************************)
(* Time-frequency CSP decoding (scripts/sensor/_03b_time_frequency_csp.py). *)
(*                                                                         *)
(* The model follows the script: main() dispatches one decoding task per   *)
(* subject x session for every contrast, joins them, and runs the group    *)
(* analysis of the contrast.  A decoding task (one_subject_decoding) reads *)
(* the epochs, decimates, chooses the PCA rank, loops over the frequency   *)
(* windows and, inside each, over the time windows, and saves its arrays.  *)
(*                                                                         *)
(* Numerical library calls (band-pass filter, PCA, cross_val_score) are    *)
(* modelled by what they are applied to: a score is a record naming the    *)
(* statistic, the frequency window, the time window and the PCA basis the  *)
(* data went through.  Frequencies are integers in one common unit.        *)
(***************************************************************************)
EXTENDS Integers, Sequences, FiniteSets, TLC

VARIABLES
    cfg,      \* the configuration of the run (config module values)
    disk,     \* the epochs file of every subject x session
    files,    \* the score artifacts on disk, keyed by (contrast, subject, session)
    task,     \* one_subject_decoding invocation per subject x session
    main,     \* position of main() and its contrast index
    ga,       \* the group_analysis invocation of the current contrast
    logs,     \* records returned by the failsafe wrapper, warnings, criticals
    grp       \* group statistics on numeric score stacks: inputs and runs

vars == <<cfg, disk, files, task, main, ga, logs, grp>>

----------------------------------------------------------------------------
(* Bounds of the model.                                                    *)

MaxTrials == 2
MaxFreqWindows == 2
MaxTimeWindows == 2
MaxSubjects == 2
MaxCalls == 4
NJobs == 2

----------------------------------------------------------------------------
(* Program constants.                                                      *)

RankCeiling == 100
NyquistMargin == 3
MinSubjects == 2

----------------------------------------------------------------------------
(* Input domains.                                                          *)

EventCodes == {1, 2, 5}

\* A contrast is the pair of event-code sets its two condition names select.
ValidContrast == <<{1}, {2}>>
ContrastChoices ==
    { ValidContrast, <<{1, 5}, {2}>>, <<{1, 5}, {2, 5}>>, <<{1, 2}, {1}>> }

SfreqChoices == {50, 60, 75, 90, 100, 125}

RankDictChoices ==
    { [c \in {"mag", "grad"} |-> IF c = "mag" THEN 70 ELSE 64],
      [c \in {"mag", "grad"} |-> IF c = "mag" THEN 1 ELSE 3],
      [c \in {"eeg"} |-> 60],
      [c \in {"eeg"} |-> 100],
      [c \in {"eeg"} |-> 101],
      [c \in {"eeg"} |-> 128] }

EventSeqs == UNION { [1..n -> EventCodes] : n \in 1..MaxTrials }

----------------------------------------------------------------------------
(* Small helpers.                                                          *)

Range(s) == { s[i] : i \in DOMAIN s }

Last(s) == s[Len(s)]

\* Number of entries of an operation log that equal e.
Times(log, e) == Cardinality({ i \in DOMAIN log : log[i] = e })

Op(name, band, win) == [op |-> name, band |-> band, win |-> win]

----------------------------------------------------------------------------
(* Tf: the frequency/time grid helper of the config module.                *)

Tf_n_freq_windows(freqs) == Len(freqs) - 1
Tf_n_time_windows(times) == Len(times) - 1
Tf_freq_ranges(freqs) == [i \in 1..(Len(freqs) - 1) |-> <<freqs[i], freqs[i + 1]>>]
Tf_time_ranges(times) == [i \in 1..(Len(times) - 1) |-> <<times[i], times[i + 1]>>]

\* Edge sequences used as inputs: n windows need n + 1 ascending edges.
FreqEdges(n) == [i \in 1..(n + 1) |-> 5 * i]
TimeEdges(n) == [i \in 1..(n + 1) |-> i - 1]

----------------------------------------------------------------------------
(* Scores and arrays.                                                      *)

\* np.zeros cell, NaN, and the result of np.mean / np.std of cross_val_score
\* on the data of frequency window band, time window win (0: the full epoch)
\* after the PCA basis fit on (basis.band, basis.win).
Zero == [stat |-> "zero", band |-> 0, win |-> 0, basis |-> <<0, 0>>]
NaN == [stat |-> "nan", band |-> 0, win |-> 0, basis |-> <<0, 0>>]
Score(stat, band, win, basis) ==
    [stat |-> stat, band |-> band, win |-> win, basis |-> basis]

Zeros1(n) == [i \in 1..n |-> Zero]
Zeros2(n, m) == [i \in 1..n |-> [j \in 1..m |-> Zero]]

----------------------------------------------------------------------------
(* prepare_labels and prepare_epochs_and_y.                                *)

\* epochs[contrast]: the trials whose event code one of the two conditions selects.
SelectContrast(events, contrast) ==
    SelectSeq(events, LAMBDA c : c \in contrast[1] \cup contrast[2])

\* set(epochs[cond].events[:, 2]): the codes of the condition present in the trials.
event_id_condition(events, cond) == { c \in Range(events) : c \in cond }

\* One pass of the loop body of prepare_labels over y[i].
LabelOf(code, cond_0, cond_1) ==
    IF code \in cond_0 /\ code \in cond_1 THEN code      \* logged as critical
    ELSE IF code \in cond_0 THEN 0
    ELSE IF code \in cond_1 THEN 1
    ELSE code                                            \* logged as critical

IsCritical(code, cond_0, cond_1) ==
    (code \in cond_0 /\ code \in cond_1) \/ (code \notin cond_0 /\ code \notin cond_1)

prepare_labels(events, contrast) ==
    LET cond_0 == event_id_condition(events, contrast[1])
        cond_1 == event_id_condition(events, contrast[2])
    IN  [ y |-> [i \in DOMAIN events |-> LabelOf(events[i], cond_0, cond_1)],
          critical |-> { events[i] : i \in { j \in DOMAIN events :
                                              IsCritical(events[j], cond_0, cond_1) } } ]

\* The trials kept, in order, and their labels.
prepare_epochs_and_y(events, contrast) ==
    LET kept == SelectContrast(events, contrast)
        lab == prepare_labels(kept, contrast)
    IN  [ events |-> kept, y |-> lab.y, critical |-> lab.critical ]

----------------------------------------------------------------------------
(* Decimation policy and rank selection of one_subject_decoding.           *)

\* decimation_needed = sfreq / (3 * freqs[-1]) is a float; over integers
\* decimation_needed > 2 is sfreq > 2 * 3 * freqs[-1].
ShouldDecimateFloor(sfreq, max_freq, csp_quick) ==
    (sfreq \div (NyquistMargin * max_freq)) > 2 /\ csp_quick

ShouldDecimate(sfreq, max_freq, csp_quick) ==
    sfreq > 2 * NyquistMargin * max_freq /\ csp_quick

\* int(decimation_needed)
DecimationFactor(sfreq, max_freq) == sfreq \div (NyquistMargin * max_freq)

\* min(rank_dic, key=rank_dic.get)
MinRankChType(rank_dic) ==
    CHOOSE c \in DOMAIN rank_dic : \A d \in DOMAIN rank_dic : rank_dic[c] <= rank_dic[d]

ChooseRankUncapped(rank_dic) == rank_dic[MinRankChType(rank_dic)]

ChooseRank(rank_dic) ==
    LET rank == rank_dic[MinRankChType(rank_dic)]
    IN  IF rank > RankCeiling THEN RankCeiling ELSE rank

----------------------------------------------------------------------------
(* PCA basis: the data it was fit on, <<band, win>>; <<0, 0>> is unfitted. *)

Unfitted == <<0, 0>>

\* pca.fit_transform(X) on the full epochs of frequency window band
pca_fit_transform(basis, band) == <<band, 0>>

pca_refit(basis, band, win) == <<band, win>>

\* pca.transform(X) on the crop (band, win): the basis is applied, not changed
pca_transform(basis, band, win) == basis

\* sklearn's roc_auc scorer needs two classes in y; the task may as well raise
\* there, which TaskFail covers.
cross_val_mean(y, band, win, basis) ==
    IF Cardinality(Range(y)) = 2 THEN Score("mean", band, win, basis) ELSE NaN

cross_val_std(y, band, win, basis) ==
    IF Cardinality(Range(y)) = 2 THEN Score("std", band, win, basis) ELSE NaN

----------------------------------------------------------------------------
(* State of the run.                                                       *)

Keys == { <<s, e>> : s \in 1..cfg.nSub, e \in 1..cfg.nSes }

n_freq_windows == Tf_n_freq_windows(cfg.freqs)
n_time_windows == Tf_n_time_windows(cfg.times)

\* A .npy file: np.save keeps the shape of the array with its cells.
Absent == [exists |-> FALSE, shape |-> <<>>, arr |-> <<>>]
Saved1(arr) == [exists |-> TRUE, shape |-> <<Len(arr)>>, arr |-> arr]
Saved2(arr, m) == [exists |-> TRUE, shape |-> <<Len(arr), m>>, arr |-> arr]

NoArtifact == [freq_scores |-> Absent, freq_scores_std |-> Absent, tf_scores |-> Absent]

NoEpochs == [events |-> <<>>, sfreq |-> 0, decim |-> 1]

\* An invocation of one_subject_decoding that a worker has not started yet.
QueuedTask(c) ==
    [ pc |-> "queued", contrast |-> c, epochs |-> NoEpochs, rank |-> 0,
      pca |-> Unfitted, freq |-> 0, t |-> 0, kept |-> <<>>, y |-> <<>>,
      freq_scores |-> <<>>, freq_scores_std |-> <<>>, tf_scores |-> <<>>,
      ops |-> <<>> ]

Contrast(k) == cfg.contrasts[task[k].contrast]

\* failsafe_run: the wrapper returns a record of the outcome instead of raising.
failsafe_run(c, who, success) == [contrast |-> c, who |-> who, success |-> success]

----------------------------------------------------------------------------
(* one_subject_decoding, one action per step.                              *)

\* read_epochs and tf.check_csp_times (lines 350-351)
ReadEpochs(k) ==
    /\ task[k].pc = "start"
    /\ task' = [task EXCEPT ![k].pc = "decimate",
                            ![k].epochs = [events |-> disk[k].events,
                                           sfreq |-> disk[k].sfreq,
                                           decim |-> 1]]
    /\ UNCHANGED <<grp, cfg, disk, files, main, ga, logs>>

\* Compute maximal decimation possible (lines 353-359)
Decimate(k) ==
    /\ task[k].pc = "decimate"
    /\ LET sfreq == task[k].epochs.sfreq
           max_freq == Last(cfg.freqs)
       IN  IF ShouldDecimate(sfreq, max_freq, cfg.csp_quick)
           THEN task' = [task EXCEPT
                    ![k].pc = "rank",
                    ![k].epochs.decim = @ * DecimationFactor(sfreq, max_freq),
                    ![k].ops = Append(@, Op("decimate", 0, 0))]
           ELSE task' = [task EXCEPT ![k].pc = "rank"]
    /\ UNCHANGED <<grp, cfg, disk, files, main, ga, logs>>

\* Rank choice, PCA and classifier construction, np.zeros (lines 361-393)
SelectRank(k) ==
    /\ task[k].pc = "rank"
    /\ task' = [task EXCEPT
            ![k].pc = IF n_freq_windows >= 1 THEN "freq" ELSE "save_freq",
            ![k].rank = ChooseRank(disk[k].rank_dic),
            ![k].pca = Unfitted,
            ![k].freq = 1,
            ![k].freq_scores = Zeros1(n_freq_windows),
            ![k].freq_scores_std = Zeros1(n_freq_windows),
            ![k].tf_scores = Zeros2(n_freq_windows, n_time_windows)]
    /\ UNCHANGED <<grp, cfg, disk, files, main, ga, logs>>

\* Where the time loop writes its score (line 457)
TfCellStuck(freq, t) == <<freq, 1>>

\* Writes the cells of each frequency window in reverse time order.
TfCellReversed(freq, t) == <<freq, n_time_windows + 1 - t>>

TfCell(freq, t) == <<freq, t>>

\* Head of the frequency loop up to the frequency scores (lines 395-411)
FreqStep(k) ==
    /\ task[k].pc = "freq"
    /\ LET freq == task[k].freq
           prep == prepare_epochs_and_y(task[k].epochs.events, Contrast(k))
           basis == pca_fit_transform(task[k].pca, freq)
       IN  /\ task' = [task EXCEPT
                  ![k].pc = IF n_time_windows >= 1 THEN "time"
                            ELSE IF freq < n_freq_windows THEN "freq"
                            ELSE "save_freq",
                  ![k].freq = IF n_time_windows >= 1 THEN freq ELSE freq + 1,
                  ![k].t = 1,
                  ![k].kept = prep.events,
                  ![k].y = prep.y,
                  ![k].pca = basis,
                  ![k].freq_scores_std[freq] = cross_val_std(prep.y, freq, 0, basis),
                  ![k].freq_scores[freq] = cross_val_mean(prep.y, freq, 0, basis),
                  ![k].ops = @ \o << Op("filter", freq, 0), Op("labels", freq, 0),
                                     Op("fit", freq, 0), Op("score", freq, 0),
                                     Op("write_freq", freq, 0) >>]
           /\ logs' = [logs EXCEPT !.critical = @ \cup
                          { [who |-> k, code |-> c] : c \in prep.critical }]
    /\ UNCHANGED <<grp, cfg, disk, files, main, ga>>

\* One pass of the time loop (lines 433-472) and the loop exits
TimeStep(k) ==
    /\ task[k].pc = "time"
    /\ LET freq == task[k].freq
           t == task[k].t
           basis == pca_transform(task[k].pca, freq, t)
           cell == TfCell(freq, t)
           more_t == t < n_time_windows
           more_f == freq < n_freq_windows
       IN  task' = [task EXCEPT
               ![k].pc = IF more_t THEN "time" ELSE IF more_f THEN "freq" ELSE "save_freq",
               ![k].t = IF more_t THEN t + 1 ELSE t,
               ![k].freq = IF more_t \/ ~more_f THEN freq ELSE freq + 1,
               ![k].pca = basis,
               ![k].tf_scores[cell[1]][cell[2]] =
                    cross_val_mean(task[k].y, freq, t, basis),
               ![k].ops = @ \o << Op("crop", freq, t),
                                  Op(IF basis = task[k].pca THEN "transform" ELSE "fit",
                                     freq, t),
                                  Op("score", freq, t),
                                  Op("write_tf", cell[1], cell[2]) >>]
    /\ UNCHANGED <<grp, cfg, disk, files, main, ga, logs>>

FileKey(k) == <<task[k].contrast, k[1], k[2]>>

\* np.save of freq_scores (line 475)
SaveFreq(k) ==
    /\ task[k].pc = "save_freq"
    /\ files' = [files EXCEPT ![FileKey(k)].freq_scores = Saved1(task[k].freq_scores)]
    /\ task' = [task EXCEPT ![k].pc = "save_std",
                            ![k].ops = Append(@, Op("save_freq", 0, 0))]
    /\ UNCHANGED <<grp, cfg, disk, main, ga, logs>>

\* np.save of freq_scores_std (lines 476-477)
SaveStd(k) ==
    /\ task[k].pc = "save_std"
    /\ files' = [files EXCEPT
                    ![FileKey(k)].freq_scores_std = Saved1(task[k].freq_scores_std)]
    /\ task' = [task EXCEPT ![k].pc = "plot_freq",
                            ![k].ops = Append(@, Op("save_std", 0, 0))]
    /\ UNCHANGED <<grp, cfg, disk, main, ga, logs>>

\* plot_frequency_decoding and report.add_figure (lines 479-493)
PlotFreq(k) ==
    /\ task[k].pc = "plot_freq"
    /\ task' = [task EXCEPT ![k].pc = "save_tf"]
    /\ UNCHANGED <<grp, cfg, disk, files, main, ga, logs>>

\* np.save of tf_scores (line 496)
SaveTf(k) ==
    /\ task[k].pc = "save_tf"
    /\ files' = [files EXCEPT ![FileKey(k)].tf_scores =
                    Saved2(task[k].tf_scores, n_time_windows)]
    /\ task' = [task EXCEPT ![k].pc = "report",
                            ![k].ops = Append(@, Op("save_tf", 0, 0))]
    /\ UNCHANGED <<grp, cfg, disk, main, ga, logs>>

\* plot_time_frequency_decoding, report.save, and the return through the
\* failsafe wrapper (lines 497-509)
Report(k) ==
    /\ task[k].pc = "report"
    /\ task' = [task EXCEPT ![k].pc = "done"]
    /\ logs' = [logs EXCEPT !.runs = @ \cup {failsafe_run(task[k].contrast, k, TRUE)}]
    /\ UNCHANGED <<grp, cfg, disk, files, main, ga>>

\* The steps that call into file reading, the classifier or the plotting
\* code can raise; the failsafe wrapper catches and records the failure, and
\* the frame of the task is gone.
FailPoints == {"start", "freq", "time", "plot_freq", "report"}

TaskFail(k) ==
    /\ task[k].pc \in FailPoints
    /\ task' = [task EXCEPT ![k] = [QueuedTask(task[k].contrast) EXCEPT !.pc = "failed"]]
    /\ logs' = [logs EXCEPT !.runs = @ \cup {failsafe_run(task[k].contrast, k, FALSE)}]
    /\ UNCHANGED <<grp, cfg, disk, files, main, ga>>

TaskStep(k) ==
    \/ ReadEpochs(k)
    \/ Decimate(k)
    \/ SelectRank(k)
    \/ FreqStep(k)
    \/ TimeStep(k)
    \/ SaveFreq(k)
    \/ SaveStd(k)
    \/ PlotFreq(k)
    \/ SaveTf(k)
    \/ Report(k)
    \/ TaskFail(k)

----------------------------------------------------------------------------
(* load_and_average.                                                       *)

\* len(sessions) if type(sessions) == list else 1; get_sessions returns a list
len_session == cfg.nSes

\* enumerate(itertools.product(subjects, sessions)): the unit of row i
UnitAt(i) == << ((i - 1) \div cfg.nSes) + 1, ((i - 1) % cfg.nSes) + 1 >>

NanArray(shape) ==
    IF Len(shape) = 1 THEN [i \in 1..shape[1] |-> NaN]
    ELSE [i \in 1..shape[1] |-> [j \in 1..shape[2] |-> NaN]]

HasNaN(arr, shape) ==
    IF Len(shape) = 1 THEN \E i \in 1..shape[1] : arr[i] = NaN
    ELSE \E i \in 1..shape[1] : \E j \in 1..shape[2] : arr[i][j] = NaN

\* The try/except of the loop body without the shape check
LoadSlotAnyShape(f, shape) ==
    IF f.exists THEN f.arr ELSE NanArray(shape)

\* The try/except of the loop body: a missing file and a file of another
\* shape both end in the except branch (lines 547-557)
LoadSlot(f, shape) ==
    IF f.exists /\ f.shape = shape THEN f.arr ELSE NanArray(shape)

FileOf(c, i, kind) == files[<<c, UnitAt(i)[1], UnitAt(i)[2]>>][kind]

\* res, one row per subject x session (lines 543-562)
load_stack(c, kind, shape) ==
    [i \in 1..(cfg.nSub * len_session) |-> LoadSlot(FileOf(c, i, kind), shape)]

\* logger.warning calls of the loop (lines 550-561)
load_warnings(c, kind, shape) ==
    { [what |-> "shape mismatch", kind |-> kind, contrast |-> c, who |-> UnitAt(i)] :
        i \in { j \in 1..(cfg.nSub * len_session) :
                  FileOf(c, j, kind).exists /\ FileOf(c, j, kind).shape # shape } }
    \cup
    { [what |-> "nan values", kind |-> kind, contrast |-> c, who |-> UnitAt(i)] :
        i \in { j \in 1..(cfg.nSub * len_session) :
                  HasNaN(LoadSlot(FileOf(c, j, kind), shape), shape) } }

\* np.nanmean(res, axis=0): the rows that contribute to a cell
NanMean1(stack, shape) ==
    [j \in 1..shape[1] |->
        [stat |-> "nanmean", over |-> { i \in DOMAIN stack : stack[i][j] # NaN }]]

NanMean2(stack, shape) ==
    [j \in 1..shape[1] |-> [t \in 1..shape[2] |->
        [stat |-> "nanmean", over |-> { i \in DOMAIN stack : stack[i][j][t] # NaN }]]]

----------------------------------------------------------------------------
(* group_analysis, one action per step.                                    *)

Group == <<0, 0>>     \* the "average" subject in the records of the wrapper

NoStats == [N |-> 0, rows |-> 0, mean |-> <<>>, resample_size |-> 0]

GaStart(c) ==
    [ pc |-> "start", contrast |-> c, all_freq_scores |-> <<>>, freq_scores |-> <<>>,
      stats |-> NoStats, all_tf_scores |-> <<>>, X |-> <<>>, report |-> FALSE ]

\* len(subjects) * number of sessions < 2
TooFewUnits(nSub, nSes) == nSub * nSes < MinSubjects

\* len(subjects) < 2 (line 737)
TooFewSubjects(nSub, nSes) == nSub < MinSubjects

\* Entry and the early return (lines 734-742)
GaEnter ==
    /\ main.pc = "group"
    /\ ga.pc = "start"
    /\ IF TooFewSubjects(cfg.nSub, cfg.nSes)
       THEN /\ ga' = [ga EXCEPT !.pc = "returned"]
            /\ logs' = [logs EXCEPT
                  !.warning = @ \cup {[what |-> "one subject", kind |-> "group",
                                       contrast |-> ga.contrast, who |-> Group]},
                  !.runs = @ \cup {failsafe_run(ga.contrast, Group, TRUE)}]
       ELSE /\ ga' = [ga EXCEPT !.pc = "load_freq"]
            /\ logs' = logs
    /\ UNCHANGED <<grp, cfg, disk, files, task, main>>

\* Average frequency analysis (lines 748-751)
GaLoadFreq ==
    /\ ga.pc = "load_freq"
    /\ LET shape == <<n_freq_windows>>
           stack == load_stack(ga.contrast, "freq_scores", shape)
       IN  /\ ga' = [ga EXCEPT !.pc = "conf_inter",
                               !.all_freq_scores = stack,
                               !.freq_scores = NanMean1(stack, shape)]
           /\ logs' = [logs EXCEPT !.warning = @ \cup
                          load_warnings(ga.contrast, "freq_scores", shape)]
    /\ UNCHANGED <<grp, cfg, disk, files, task, main>>

\* compute_conf_inter and the frequency figure (lines 754-767)
GaConfInter ==
    /\ ga.pc = "conf_inter"
    /\ ga' = [ga EXCEPT !.pc = "load_tf",
                        !.stats = [ N |-> cfg.nSub,
                                    rows |-> Len(ga.all_freq_scores),
                                    mean |-> NanMean1(ga.all_freq_scores,
                                                      <<n_freq_windows>>),
                                    resample_size |-> cfg.nSub ]]
    /\ UNCHANGED <<grp, cfg, disk, files, task, main, logs>>

\* Average time-frequency analysis (lines 770-781)
GaLoadTf ==
    /\ ga.pc = "load_tf"
    /\ LET shape == <<n_freq_windows, n_time_windows>>
           stack == load_stack(ga.contrast, "tf_scores", shape)
       IN  /\ ga' = [ga EXCEPT !.pc = "stats",
                               !.all_tf_scores = NanMean2(stack, shape)]
           /\ logs' = [logs EXCEPT !.warning = @ \cup
                          load_warnings(ga.contrast, "tf_scores", shape)]
    /\ UNCHANGED <<grp, cfg, disk, files, task, main>>

\* Statistical tests on the stack of time-frequency scores (lines 787-832)
GaStats ==
    /\ ga.pc = "stats"
    /\ LET shape == <<n_freq_windows, n_time_windows>>
       IN  /\ ga' = [ga EXCEPT !.pc = "report",
                               !.X = load_stack(ga.contrast, "tf_scores", shape)]
           /\ logs' = [logs EXCEPT !.warning = @ \cup
                          load_warnings(ga.contrast, "tf_scores", shape)]
    /\ UNCHANGED <<grp, cfg, disk, files, task, main>>

\* Figures, report.save and the return through the wrapper (lines 834-858)
GaReport ==
    /\ ga.pc = "report"
    /\ ga' = [ga EXCEPT !.pc = "done", !.report = TRUE]
    /\ logs' = [logs EXCEPT !.runs = @ \cup {failsafe_run(ga.contrast, Group, TRUE)}]
    /\ UNCHANGED <<grp, cfg, disk, files, task, main>>

\* The statistics and the plotting code can raise; the wrapper records it.
GaFailPoints == {"conf_inter", "stats", "report"}

GaFail ==
    /\ ga.pc \in GaFailPoints
    /\ ga' = [GaStart(ga.contrast) EXCEPT !.pc = "failed"]
    /\ logs' = [logs EXCEPT !.runs = @ \cup {failsafe_run(ga.contrast, Group, FALSE)}]
    /\ UNCHANGED <<grp, cfg, disk, files, task, main>>

GaStep ==
    \/ GaEnter
    \/ GaLoadFreq
    \/ GaConfInter
    \/ GaLoadTf
    \/ GaStats
    \/ GaReport
    \/ GaFail

GaIdle == [GaStart(0) EXCEPT !.pc = "idle"]

----------------------------------------------------------------------------
(* main.                                                                   *)

KeyIndex(k) == (k[1] - 1) * cfg.nSes + k[2]

Finished(k) == task[k].pc \in {"done", "failed"}

Running(k) == task[k].pc \notin {"queued", "done", "failed"}

\* The call of parallel(...) returns as soon as one task has returned
JoinReadyAny == \E k \in Keys : Finished(k)

\* The call of parallel(...) returns only if every task succeeded
JoinReadyAllDone == \A k \in Keys : task[k].pc = "done"

\* The call of parallel(...) returns the list of the records of all tasks
\* (line 917): every task has returned, with success or failure
JoinReady == \A k \in Keys : Finished(k)

\* Start of main up to the contrast loop (lines 893-911)
MainStart ==
    /\ main.pc = "init"
    /\ IF cfg.contrasts = <<>>
       THEN main' = [main EXCEPT !.pc = "skipped"]
       ELSE main' = [pc |-> "spawn", ci |-> 1]
    /\ UNCHANGED <<grp, cfg, disk, files, task, ga, logs>>

\* One delayed call per subject x session of the contrast (lines 915-924)
Spawn ==
    /\ main.pc = "spawn"
    /\ task' = [k \in Keys |-> QueuedTask(main.ci)]
    /\ ga' = GaIdle
    /\ main' = [main EXCEPT !.pc = "parallel"]
    /\ UNCHANGED <<grp, cfg, disk, files, logs>>

\* A free worker takes the next call, in the order of the iterator, while
\* fewer than N_JOBS calls are running
Dispatch(k) ==
    /\ main.pc = "parallel"
    /\ task[k].pc = "queued"
    /\ \A j \in Keys : KeyIndex(j) < KeyIndex(k) => task[j].pc # "queued"
    /\ Cardinality({ j \in Keys : Running(j) }) < NJobs
    /\ task' = [task EXCEPT ![k].pc = "start"]
    /\ UNCHANGED <<grp, cfg, disk, files, main, ga, logs>>

\* parallel(...) returns, config.save_logs, call of group_analysis
\* (lines 917-931)
Join ==
    /\ main.pc = "parallel"
    /\ JoinReady
    /\ main' = [main EXCEPT !.pc = "group"]
    /\ ga' = GaStart(main.ci)
    /\ UNCHANGED <<grp, cfg, disk, files, task, logs>>

\* group_analysis has returned: next contrast or the end of main
\* (lines 913, 933-934)
NextContrast ==
    /\ main.pc = "group"
    /\ ga.pc \in {"returned", "done", "failed"}
    /\ IF main.ci < Len(cfg.contrasts)
       THEN main' = [pc |-> "spawn", ci |-> main.ci + 1]
       ELSE main' = [main EXCEPT !.pc = "completed"]
    /\ UNCHANGED <<grp, cfg, disk, files, task, ga, logs>>

MainStep ==
    \/ MainStart
    \/ Spawn
    \/ Join
    \/ NextContrast

----------------------------------------------------------------------------
(* A single decoding task on varied inputs.                                *)

NoLogs == [runs |-> {}, critical |-> {}, warning |-> {}]

\* No group statistics on numeric stacks are running.
GrpIdle == [seeded_draws |-> <<>>, all_freq_scores |-> <<>>, all_tf_scores |-> <<>>,
            run |-> <<>>]

DefaultEvents == <<1, 2>>
DefaultSfreq == 125
DefaultRankDic == [c \in {"eeg"} |-> 60]

TaskInit(events, contrast, sfreq, csp_quick, nF, nT, rank_dic) ==
    /\ cfg = [ nSub |-> 1, nSes |-> 1, contrasts |-> <<contrast>>,
               freqs |-> FreqEdges(nF), times |-> TimeEdges(nT),
               csp_quick |-> csp_quick ]
    /\ disk = [k \in {<<1, 1>>} |->
                  [events |-> events, sfreq |-> sfreq, rank_dic |-> rank_dic]]
    /\ files = [fk \in {<<1, 1, 1>>} |-> NoArtifact]
    /\ task = [k \in {<<1, 1>>} |-> [QueuedTask(1) EXCEPT !.pc = "start"]]
    /\ main = [pc |-> "parallel", ci |-> 1]
    /\ ga = GaIdle
    /\ logs = NoLogs
    /\ grp = GrpIdle

InitTask ==
    \/ \E events \in EventSeqs, contrast \in ContrastChoices :
          TaskInit(events, contrast, DefaultSfreq, FALSE, 1, 1, DefaultRankDic)
    \/ \E sfreq \in SfreqChoices, csp_quick \in BOOLEAN, nF \in 1..MaxFreqWindows :
          TaskInit(DefaultEvents, ValidContrast, sfreq, csp_quick, nF, 1, DefaultRankDic)
    \/ \E rank_dic \in RankDictChoices :
          TaskInit(DefaultEvents, ValidContrast, DefaultSfreq, FALSE, 1, 1, rank_dic)
    \/ \E nF \in 1..MaxFreqWindows, nT \in 1..MaxTimeWindows, csp_quick \in BOOLEAN :
          TaskInit(DefaultEvents, ValidContrast, DefaultSfreq, csp_quick, nF, nT,
                   DefaultRankDic)

NextTask == \E k \in Keys : TaskStep(k)

SpecTask == InitTask /\ [][NextTask]_vars

----------------------------------------------------------------------------
(* The whole run: main, the decoding tasks of every contrast, the group    *)
(* analysis of every contrast.                                             *)

SessionChoices == {1, 2}

ContrastLists == { <<>>, <<ValidContrast>>, <<ValidContrast, <<{2}, {1}>>>> }

\* Artifacts left by an earlier run of the pipeline whose grid had nF frequency
\* windows and nT time windows.
EarlierArtifact(nF, nT) ==
    [ freq_scores |-> Saved1([i \in 1..nF |-> Score("earlier", i, 0, <<i, 0>>)]),
      freq_scores_std |-> Saved1([i \in 1..nF |-> Score("earlier", i, 0, <<i, 0>>)]),
      tf_scores |-> Saved2([i \in 1..nF |->
                               [j \in 1..nT |-> Score("earlier", i, j, <<i, 0>>)]], nT) ]

\* What is on disk before the run: nothing, the artifacts of an earlier run with
\* the same grid, or those of an earlier run with one more frequency window.
PriorChoices == {"none", "same grid", "other grid"}

PriorArtifact(prior, nF, nT) ==
    IF prior = "none" THEN NoArtifact
    ELSE IF prior = "same grid" THEN EarlierArtifact(nF, nT)
    ELSE EarlierArtifact(nF + 1, nT)

InitRun ==
    \E nSub \in 1..MaxSubjects, nSes \in SessionChoices,
       contrasts \in ContrastLists, prior \in PriorChoices :
        /\ Len(contrasts) * nSub * nSes <= MaxCalls
        /\ cfg = [ nSub |-> nSub, nSes |-> nSes, contrasts |-> contrasts,
                   freqs |-> FreqEdges(1), times |-> TimeEdges(1),
                   csp_quick |-> FALSE ]
        /\ disk = [k \in (1..nSub) \X (1..nSes) |->
                      [events |-> DefaultEvents, sfreq |-> DefaultSfreq,
                       rank_dic |-> DefaultRankDic]]
        /\ files = [fk \in (1..Len(contrasts)) \X (1..nSub) \X (1..nSes) |->
                      PriorArtifact(prior, 1, 1)]
        /\ task = [k \in (1..nSub) \X (1..nSes) |-> QueuedTask(0)]
        /\ main = [pc |-> "init", ci |-> 0]
        /\ ga = GaIdle
        /\ logs = NoLogs
        /\ grp = GrpIdle

NextRun ==
    \/ MainStep
    \/ \E k \in Keys : Dispatch(k)
    \/ \E k \in Keys : TaskStep(k)
    \/ GaStep

Spec == InitRun /\ [][NextRun]_vars

\* Workers, main and the group analysis keep running: no step waits forever.
FairSpec == Spec /\ WF_vars(NextRun)

----------------------------------------------------------------------------
(* Numbers of the group statistics.  A score is a fraction <<n, d>> with  *)
(* d > 0, or NaNf; the scores of a stack share the denominator of chance. *)

NaNf == <<>>

\* ROC-AUC chance score level (line 88): 0.5
chance == <<1, 2>>

One == <<1, 1>>
ZeroF == <<0, 1>>

Den == chance[2]

Leq(a, b) == a # NaNf /\ b # NaNf /\ a[1] * b[2] <= b[1] * a[2]
Lt(a, b) == a # NaNf /\ b # NaNf /\ a[1] * b[2] < b[1] * a[2]

Abs(x) == IF x < 0 THEN 0 - x ELSE x

\* Sum of the first n entries of a sequence of integers.
RECURSIVE SumTo(_, _)
SumTo(s, n) == IF n = 0 THEN 0 ELSE s[n] + SumTo(s, n - 1)

AnyNaN(a) == \E i \in DOMAIN a : a[i] = NaNf

\* Numerators of an array without NaN.
Nums(a) == [i \in DOMAIN a |-> a[i][1]]

\* mean_scores[:, idx]
Column(mean_scores, idx) == [r \in 1..Len(mean_scores) |-> mean_scores[r][idx]]

\* np.nanmean of a column: the NaN entries are left out of sum and count.
np_nanmean(a) ==
    LET ok == { i \in DOMAIN a : a[i] # NaNf }
        nums == [i \in DOMAIN a |-> IF a[i] = NaNf THEN 0 ELSE a[i][1]]
    IN  IF ok = {} THEN NaNf
        ELSE <<SumTo(nums, Len(nums)), Den * Cardinality(ok)>>

\* ndarray.min and ndarray.max: a NaN in the column is the result.
np_min(a) ==
    IF AnyNaN(a) THEN NaNf
    ELSE <<CHOOSE m \in Range(Nums(a)) : \A x \in Range(Nums(a)) : m <= x, Den>>

np_max(a) ==
    IF AnyNaN(a) THEN NaNf
    ELSE <<CHOOSE m \in Range(Nums(a)) : \A x \in Range(Nums(a)) : m >= x, Den>>

\* np.mean over a one-dimensional array (NaN if it holds a NaN).
np_mean(a) ==
    IF AnyNaN(a) THEN NaNf ELSE <<SumTo(Nums(a), Len(a)), Den * Len(a)>>

\* rng.choice(a, size=(n_boot, size), replace=True): the generator's picks
\* fill the array row by row, starting at position offset + 1 of its output.
rng_choice(a, draws, offset, n_boot, size) ==
    [i \in 1..n_boot |-> [j \in 1..size |-> a[draws[offset + (i - 1) * size + j]]]]

\* ndarray.std(ddof=1), carried by its square, the sample variance:
\* sum((m - mean(m))^2) / (n - 1); 0 / 0 with one value, NaN with a NaN.
np_std_ddof1(means) ==
    IF AnyNaN(means) \/ Len(means) = 1 THEN NaNf
    ELSE LET n == Len(means)
             s == Nums(means)
             d == means[1][2]
             sq == [i \in 1..n |-> s[i] * s[i]]
         IN  <<n * SumTo(sq, n) - SumTo(s, n) * SumTo(s, n), n * (n - 1) * d * d>>

\* q = 0.025 and q = 0.975 in units of 1 / QuantileDen
QuantileDen == 40
QLower == 1
QUpper == 39

\* np.quantile without its sort of the data.
np_quantile_unsorted(means, q) ==
    IF AnyNaN(means) THEN NaNf
    ELSE LET n == Len(means)
             s == Nums(means)
             p == (n - 1) * q
             lo == p \div QuantileDen
             rem == p % QuantileDen
             hi == IF rem = 0 THEN lo + 1 ELSE lo + 2
         IN  <<QuantileDen * s[lo + 1] + rem * (s[hi] - s[lo + 1]),
               QuantileDen * means[1][2]>>

\* np.quantile(means, q), linear interpolation between the order statistics
\* around position (n - 1) * q.
np_quantile(means, q) ==
    IF AnyNaN(means) THEN NaNf
    ELSE LET n == Len(means)
             s == SortSeq(Nums(means), LAMBDA x, y : x < y)
             p == (n - 1) * q
             lo == p \div QuantileDen
             rem == p % QuantileDen
             hi == IF rem = 0 THEN lo + 1 ELSE lo + 2
         IN  <<QuantileDen * s[lo + 1] + rem * (s[hi] - s[lo + 1]),
               QuantileDen * means[1][2]>>

\* scores_resampled of frequency bin idx (lines 690-692)
scores_resampled(mean_scores, draws, idx, n_boot, nSub) ==
    rng_choice(Column(mean_scores, idx), draws, (idx - 1) * n_boot * nSub, n_boot, nSub)

\* bootstrapped_means of frequency bin idx (line 693)
bootstrapped_means(mean_scores, draws, idx, n_boot, nSub) ==
    LET rs == scores_resampled(mean_scores, draws, idx, n_boot, nSub)
    IN  [i \in 1..n_boot |-> np_mean(rs[i])]

\* compute_conf_inter (lines 643-705); draws is the output of
\* np.random.default_rng(seed=cfg.random_state).
compute_conf_inter(mean_scores, nSub, n_boot, draws, nF) ==
    [ N |-> nSub,
      mean |-> [b \in 1..nF |-> np_nanmean(Column(mean_scores, b))],
      mean_min |-> [b \in 1..nF |-> np_min(Column(mean_scores, b))],
      mean_max |-> [b \in 1..nF |-> np_max(Column(mean_scores, b))],
      mean_se |-> [b \in 1..nF |->
          np_std_ddof1(bootstrapped_means(mean_scores, draws, b, n_boot, nSub))],
      mean_ci_lower |-> [b \in 1..nF |->
          np_quantile(bootstrapped_means(mean_scores, draws, b, n_boot, nSub), QLower)],
      mean_ci_upper |-> [b \in 1..nF |->
          np_quantile(bootstrapped_means(mean_scores, draws, b, n_boot, nSub), QUpper)] ]

----------------------------------------------------------------------------
(* permutation_cluster_1samp_test as group_analysis calls it (lines       *)
(* 804-808): sign-flip permutations, clusters of neighbouring cells of    *)
(* the lattice beyond the threshold, p-values from the largest cluster    *)
(* mass of every permutation.  The statistic of a cell is carried by the  *)
(* sum of its column, which orders the permutations of a cell as its      *)
(* t-value does.                                                          *)

\* X = X - chance (line 790)
Recenter(stack) ==
    [r \in DOMAIN stack |-> [f \in DOMAIN stack[r] |-> [t \in DOMAIN stack[r][f] |->
        <<stack[r][f][t][1] - chance[1], Den>>]]]

Cells(nF, nT) == (1..nF) \X (1..nT)

\* Sign of sample r under the permutation numbered order (its binary digits;
\* 0 is the data as observed).
Sign(order, r) == IF (order \div (2 ^ (r - 1))) % 2 = 1 THEN 0 - 1 ELSE 1

CellStat(X, order, c) ==
    SumTo([r \in 1..Len(X) |-> Sign(order, r) * X[r][c[1]][c[2]][1]], Len(X))

\* adjacency=None: the regular lattice
Adjacent(c, d) ==
    \/ c[1] = d[1] /\ Abs(c[2] - d[2]) = 1
    \/ c[2] = d[2] /\ Abs(c[1] - d[1]) = 1

RECURSIVE Grow(_, _)
Grow(A, S) ==
    LET T == S \cup { c \in A : \E d \in S : Adjacent(c, d) }
    IN  IF T = S THEN S ELSE Grow(A, T)

Components(A) == { Grow(A, {c}) : c \in A }

ClustersOf(X, order, threshold, nF, nT) ==
    Components({ c \in Cells(nF, nT) : CellStat(X, order, c) > threshold })
        \cup Components({ c \in Cells(nF, nT) : CellStat(X, order, c) < 0 - threshold })

RECURSIVE Mass(_, _, _)
Mass(X, order, cl) ==
    IF cl = {} THEN 0
    ELSE LET c == CHOOSE c \in cl : TRUE
         IN  CellStat(X, order, c) + Mass(X, order, cl \ {c})

\* One entry of H0: the largest cluster mass of a permutation.
MaxMass(X, order, threshold, nF, nT) ==
    LET ms == { Abs(Mass(X, order, cl)) : cl \in ClustersOf(X, order, threshold, nF, nT) }
    IN  IF ms = {} THEN 0 ELSE CHOOSE m \in ms : \A x \in ms : m >= x

max_perms(n_samples) == 2 ^ (n_samples - 1) - 1

\* The permutations of one call: all of them when n_permutations exceeds
\* max_perms (exact test), else n_permutations - 1 of them drawn without
\* replacement by a generator made from seed=None, the default of the
\* parameter that the call leaves out.
\* The subsets of k elements of a set of numbers.
RECURSIVE Choose(_, _)
Choose(S, k) ==
    IF k = 0 THEN { {} }
    ELSE UNION { { T \cup {x} : T \in Choose({ y \in S : y > x }, k - 1) } : x \in S }

OrderChoices(n_samples, n_permutations) ==
    IF max_perms(n_samples) < n_permutations
    THEN { 1..max_perms(n_samples) }
    ELSE Choose(1..max_perms(n_samples), n_permutations - 1)

CellIndex(c, nT) == (c[1] - 1) * nT + c[2]

\* The clusters in the order of their first cell.
RECURSIVE ClusterSeq(_, _)
ClusterSeq(cls, nT) ==
    IF cls = {} THEN <<>>
    ELSE LET first(cl) == CHOOSE i \in { CellIndex(c, nT) : c \in cl } :
                              \A c \in cl : i <= CellIndex(c, nT)
             head == CHOOSE cl \in cls : \A other \in cls : first(cl) <= first(other)
         IN  <<head>> \o ClusterSeq(cls \ {head}, nT)

\* out_type='mask'
Mask(cl, nF, nT) == [f \in 1..nF |-> [t \in 1..nT |-> <<f, t>> \in cl]]

permutation_cluster_1samp_test(X, threshold, orders, nF, nT) ==
    LET cls == ClusterSeq(ClustersOf(X, 0, threshold, nF, nT), nT)
    IN  [ clusters |-> [i \in DOMAIN cls |-> Mask(cls[i], nF, nT)],
          p_values |-> [i \in DOMAIN cls |->
              << 1 + Cardinality({ o \in orders :
                        MaxMass(X, o, threshold, nF, nT) >= Abs(Mass(X, 0, cls[i])) }),
                 1 + Cardinality(orders) >>] ]

\* np.zeros in the place of np.ones
np_zeros(nF, nT) == [f \in 1..nF |-> [t \in 1..nT |-> ZeroF]]

\* np.ones((tf.n_freq_windows, tf.n_time_windows)) (line 814)
np_ones(nF, nT) == [f \in 1..nF |-> [t \in 1..nT |-> One]]

\* for cl, p in zip(clusters, p_values): p_clust[cl] = p (lines 815-816)
RECURSIVE FillClusters(_, _, _, _)
FillClusters(p_clust, clusters, p_values, i) ==
    IF i > Len(clusters) \/ i > Len(p_values) THEN p_clust
    ELSE FillClusters(
            [f \in DOMAIN p_clust |-> [t \in DOMAIN p_clust[f] |->
                IF clusters[i][f][t] THEN p_values[i] ELSE p_clust[f][t]]],
            clusters, p_values, i + 1)

\* len(p_values) == 0 or np.min(p_values) > cfg.cluster_stats_alpha (line 821)
NotSignificant(p_values, alpha) ==
    \/ Len(p_values) = 0
    \/ \A i \in DOMAIN p_values : Lt(alpha, p_values[i])

----------------------------------------------------------------------------
(* The statistics of group_analysis on numeric stacks, one action per     *)
(* step; a second run on the same stacks starts when the first has ended. *)

Runs == DOMAIN grp.run

RunStart == [ pc |-> "conf_inter", stats |-> <<>>, resampled_shape |-> <<>>,
              clusters |-> <<>>, p_values |-> <<>>, p_clust |-> <<>>,
              significant |-> FALSE ]

Started(r) == IF r = 1 THEN TRUE ELSE grp.run[r - 1].pc = "done"

\* contrast_score_stats = compute_conf_inter(...) (lines 754-756)
GrpConfInter(r) ==
    /\ grp.run[r].pc = "conf_inter"
    /\ Started(r)
    /\ LET rs == scores_resampled(grp.all_freq_scores, grp.seeded_draws,
                                  n_freq_windows, cfg.n_boot, cfg.nSub)
       IN  grp' = [grp EXCEPT
               ![ "run" ][r].pc = "stats",
               ![ "run" ][r].stats =
                    compute_conf_inter(grp.all_freq_scores, cfg.nSub, cfg.n_boot,
                                       grp.seeded_draws, n_freq_windows),
               ![ "run" ][r].resampled_shape = <<Len(rs), Len(rs[1])>>]
    /\ UNCHANGED <<cfg, disk, files, task, main, ga, logs>>

\* X = X - chance and the cluster permutation test (lines 787-808)
GrpClusterTest(r) ==
    /\ grp.run[r].pc = "stats"
    /\ \E orders \in OrderChoices(Len(grp.all_tf_scores), cfg.n_permutations) :
          LET X == Recenter(grp.all_tf_scores)
              out == permutation_cluster_1samp_test(X, cfg.cluster_threshold, orders,
                                                    n_freq_windows, n_time_windows)
          IN  grp' = [grp EXCEPT
                  ![ "run" ][r].pc = "p_clust",
                  ![ "run" ][r].clusters = out.clusters,
                  ![ "run" ][r].p_values = out.p_values]
    /\ UNCHANGED <<cfg, disk, files, task, main, ga, logs>>

\* Put the cluster data in a viewable format (lines 813-832)
GrpPClust(r) ==
    /\ grp.run[r].pc = "p_clust"
    /\ grp' = [grp EXCEPT
           ![ "run" ][r].pc = "done",
           ![ "run" ][r].p_clust =
                FillClusters(np_ones(n_freq_windows, n_time_windows),
                             grp.run[r].clusters, grp.run[r].p_values, 1),
           ![ "run" ][r].significant =
                ~NotSignificant(grp.run[r].p_values, cfg.cluster_stats_alpha)]
    /\ UNCHANGED <<cfg, disk, files, task, main, ga, logs>>

\* Inputs of the statistics.
MaxPicks == 4

ScoreChoices == { <<1, 2>>, <<2, 2>>, NaNf }
TfChoices == { <<0, 2>>, <<1, 2>>, <<2, 2>> }
GridChoices == { <<1, 1>>, <<1, 2>>, <<2, 1>> }
PermChoices == { 2, 4 }
ThresholdChoices == { 0, 1 }
AlphaChoices == { <<1, 20>>, <<1, 2>> }
Seed == 42

DefaultStack(rows, nF) == [r \in 1..rows |-> [b \in 1..nF |-> chance]]
DefaultTf(rows) == [r \in 1..rows |-> <<<<chance>>>>]
DefaultDraws(n) == [i \in 1..n |-> 1]

GroupInit(nSub, nSes, grid, n_boot, n_perm, thr, alpha, stack, tfstack, draws, runs) ==
    /\ cfg = [ nSub |-> nSub, nSes |-> nSes, contrasts |-> <<ValidContrast>>,
               freqs |-> FreqEdges(grid[1]), times |-> TimeEdges(grid[2]),
               csp_quick |-> FALSE, n_boot |-> n_boot,
               n_permutations |-> n_perm, random_state |-> Seed,
               cluster_threshold |-> thr, cluster_stats_alpha |-> alpha ]
    /\ disk = <<>>
    /\ files = <<>>
    /\ task = <<>>
    /\ main = [pc |-> "group", ci |-> 1]
    /\ ga = GaIdle
    /\ logs = NoLogs
    /\ grp = [ seeded_draws |-> draws, all_freq_scores |-> stack,
               all_tf_scores |-> tfstack, run |-> [r \in runs |-> RunStart] ]

InitGroup ==
    \* the bootstrap on every stack of one frequency bin and every output of
    \* the seeded generator
    \/ \E nSub \in MinSubjects..MaxSubjects, nSes \in SessionChoices :
       \E n_boot \in 1..(MaxPicks \div nSub) :
       \E stack \in [1..(nSub * nSes) -> [1..1 -> ScoreChoices]],
          draws \in [1..(n_boot * nSub) -> 1..(nSub * nSes)] :
          GroupInit(nSub, nSes, <<1, 1>>, n_boot, 1, 1, <<1, 20>>,
                    stack, DefaultTf(nSub * nSes), draws, {1})
    \* the cluster test on every time-frequency stack of three subjects
    \/ \E grid \in GridChoices, n_permutations \in PermChoices,
          threshold \in ThresholdChoices, alpha \in AlphaChoices :
       \E tfstack \in [1..(MinSubjects + 1) -> [1..grid[1] -> [1..grid[2] -> TfChoices]]] :
          GroupInit(MinSubjects + 1, 1, grid, 1, n_permutations, threshold, alpha,
                    DefaultStack(MinSubjects + 1, grid[1]), tfstack,
                    DefaultDraws(grid[1] * (MinSubjects + 1)), {1})
    \* two runs on the same stacks with the same seed
    \/ \E n_permutations \in PermChoices, last \in ScoreChoices :
       \E tfstack \in [1..(MinSubjects + 1) -> [1..1 -> [1..1 -> TfChoices]]],
          draws \in [1..(MinSubjects + 1) -> 1..(MinSubjects + 1)] :
          GroupInit(MinSubjects + 1, 1, <<1, 1>>, 1, n_permutations, 1, <<1, 20>>,
                    << <<<<1, 2>>>>, <<<<2, 2>>>>, <<last>> >>, tfstack, draws, {1, 2})

NextGroup == \E r \in Runs : GrpConfInter(r) \/ GrpClusterTest(r) \/ GrpPClust(r)

SpecGroup == InitGroup /\ [][NextGroup]_vars

----------------------------------------------------------------------------
(* Properties of a decoding task (checked under SpecTask).                 *)

\* C1: if some event code of the trials is in both condition groups' sets, or
\* some trial's code is in neither, label derivation halts the task before any
\* cross-validated score is computed for it.
C1_PartitionErrorHalts ==
    \A k \in Keys :
        LET events == SelectContrast(disk[k].events, Contrast(k))
            invalid == \E i \in DOMAIN events :
                          \/ events[i] \in Contrast(k)[1] /\ events[i] \in Contrast(k)[2]
                          \/ events[i] \notin Contrast(k)[1] \cup Contrast(k)[2]
        IN  invalid =>
                /\ task[k].pc # "done"
                /\ \A f \in DOMAIN task[k].freq_scores :
                      task[k].freq_scores[f].stat # "mean"

\* C2: every label vector handed to the classifier has one entry per trial, in
\* trial order, each exactly 0 or 1: 0 when the trial's code is in group 1's
\* set, 1 when it is in group 2's set; no raw event code remains.
C2_LabelsBinary ==
    \A k \in Keys :
        (\E i \in DOMAIN task[k].ops : task[k].ops[i].op = "labels") =>
            LET events == SelectContrast(disk[k].events, Contrast(k))
                y == task[k].y
            IN  /\ Len(y) = Len(events)
                /\ \A i \in DOMAIN y :
                      /\ y[i] \in {0, 1}
                      /\ events[i] \in Contrast(k)[1] => y[i] = 0
                      /\ events[i] \in Contrast(k)[2] => y[i] = 1

\* C7 as stated: with factor = floor(sfreq / (3 * max_freq)), the epochs are
\* decimated if and only if quick-mode is enabled and factor > 2, and then by
\* exactly that factor.
C7_DecimatedIffFloorFactorGt2 ==
    \A k \in Keys :
        task[k].pc \notin {"queued", "start", "decimate", "failed"} =>
            LET factor == disk[k].sfreq \div (3 * cfg.freqs[Len(cfg.freqs)])
                decimated == \E i \in DOMAIN task[k].ops : task[k].ops[i].op = "decimate"
            IN  /\ decimated <=> (cfg.csp_quick /\ factor > 2)
                /\ decimated => task[k].epochs.decim = factor
                /\ ~decimated => task[k].epochs.decim = 1

\* C7 amended: the epochs are decimated if and only if quick-mode is enabled
\* and the ratio sfreq / (3 * max_freq) itself exceeds 2; the factor is the floor
\* of the ratio, hence at least 2, and decimation happens at most once.
C7_DecimatedIffRatioGt2 ==
    \A k \in Keys :
        task[k].pc \notin {"queued", "start", "decimate", "failed"} =>
            LET max_freq == cfg.freqs[Len(cfg.freqs)]
                factor == disk[k].sfreq \div (3 * max_freq)
                n_decimate == Cardinality({ i \in DOMAIN task[k].ops :
                                              task[k].ops[i].op = "decimate" })
            IN  /\ n_decimate <= 1
                /\ n_decimate = 1 <=> (cfg.csp_quick /\ disk[k].sfreq > 6 * max_freq)
                /\ n_decimate = 1 => task[k].epochs.decim = factor /\ factor >= 2
                /\ n_decimate = 0 => task[k].epochs.decim = 1

\* A task decimated by 2: the ratio lies strictly between 2 and 3.
C7_Witness ==
    \E k \in Keys :
        /\ task[k].pc = "done"
        /\ task[k].epochs.decim = 2
        /\ 2 * 3 * cfg.freqs[Len(cfg.freqs)] < disk[k].sfreq
        /\ disk[k].sfreq < 3 * 3 * cfg.freqs[Len(cfg.freqs)]

\* C9: the PCA rank is the minimum of the per-channel-type rank estimates,
\* replaced by 100 when that minimum exceeds 100; it is at least 1 and at most
\* 100.
C9_RankIsCappedMin ==
    \A k \in Keys :
        task[k].pc \notin {"queued", "start", "decimate", "rank", "failed"} =>
            \E c \in DOMAIN disk[k].rank_dic :
                /\ \A d \in DOMAIN disk[k].rank_dic :
                      disk[k].rank_dic[c] <= disk[k].rank_dic[d]
                /\ task[k].rank = IF disk[k].rank_dic[c] > 100 THEN 100
                                  ELSE disk[k].rank_dic[c]
                /\ task[k].rank >= 1
                /\ task[k].rank <= 100

\* A completed task whose smallest rank estimate exceeded 100.
C9_Witness ==
    \E k \in Keys :
        /\ task[k].pc = "done"
        /\ task[k].rank = 100
        /\ \A d \in DOMAIN disk[k].rank_dic : disk[k].rank_dic[d] > 100

\* C8 as stated: within one task the PCA basis is fit exactly once, on the full
\* un-windowed data, and never refit after its first fit.
C8_PcaFitOnce ==
    \A k \in Keys :
        /\ Cardinality({ i \in DOMAIN task[k].ops : task[k].ops[i].op = "fit" }) <= 1
        /\ \A i \in DOMAIN task[k].ops :
              task[k].ops[i].op = "fit" => task[k].ops[i].win = 0

\* C8 amended: the PCA basis is fit once per frequency window, on the full
\* un-windowed data of that window; every use on a cropped time-window slice
\* applies the basis fit for the same frequency window and never refits it.
C8_PcaFitOncePerFreqWindow ==
    \A k \in Keys :
        /\ \A i \in DOMAIN task[k].ops :
              task[k].ops[i].op = "fit" =>
                  /\ task[k].ops[i].win = 0
                  /\ \A j \in DOMAIN task[k].ops :
                        (task[k].ops[j].op = "fit"
                            /\ task[k].ops[j].band = task[k].ops[i].band) => j = i
        /\ task[k].pc = "time" => task[k].pca = <<task[k].freq, 0>>
        /\ \A f \in DOMAIN task[k].tf_scores : \A t \in DOMAIN task[k].tf_scores[f] :
              task[k].tf_scores[f][t].stat = "mean" =>
                  task[k].tf_scores[f][t].basis = <<f, 0>>

\* A completed task with two frequency windows: two fits, and the time window
\* scores of the second frequency window went through the second basis.
C8_Witness ==
    \E k \in Keys :
        /\ task[k].pc = "done"
        /\ Cardinality({ i \in DOMAIN task[k].ops : task[k].ops[i].op = "fit" }) = 2
        /\ Cardinality({ i \in DOMAIN task[k].ops :
                           task[k].ops[i].op = "transform" }) >= 2
        /\ task[k].tf_scores[2][1].basis = <<2, 0>>

\* C10: when a task completes, freq_scores and freq_scores_std have length
\* len(freq_edges) - 1, tf_scores has shape (len(freq_edges) - 1,
\* len(time_edges) - 1), and every cell and every entry has been written
\* exactly once, with the score of its own frequency and time window; none
\* keeps its initial zero.
C10_GridFullyWritten ==
    \A k \in Keys :
        task[k].pc = "done" =>
            LET nF == Len(cfg.freqs) - 1
                nT == Len(cfg.times) - 1
                ops == task[k].ops
            IN  /\ Len(task[k].freq_scores) = nF
                /\ Len(task[k].freq_scores_std) = nF
                /\ Len(task[k].tf_scores) = nF
                /\ \A f \in 1..nF :
                      /\ Len(task[k].tf_scores[f]) = nT
                      /\ Cardinality({ i \in DOMAIN ops :
                              ops[i] = [op |-> "write_freq", band |-> f, win |-> 0] }) = 1
                      /\ task[k].freq_scores[f] \in
                              { NaN, [stat |-> "mean", band |-> f, win |-> 0,
                                      basis |-> task[k].freq_scores[f].basis] }
                      /\ task[k].freq_scores_std[f] \in
                              { NaN, [stat |-> "std", band |-> f, win |-> 0,
                                      basis |-> task[k].freq_scores_std[f].basis] }
                      /\ \A t \in 1..nT :
                            /\ Cardinality({ i \in DOMAIN ops :
                                  ops[i] = [op |-> "write_tf", band |-> f, win |-> t] }) = 1
                            /\ task[k].tf_scores[f][t] \in
                                  { NaN, [stat |-> "mean", band |-> f, win |-> t,
                                          basis |-> task[k].tf_scores[f][t].basis] }
                /\ \A i \in DOMAIN ops :
                      ops[i].op \in {"write_freq", "write_tf"} =>
                          ops[i].band \in 1..nF /\ ops[i].win \in 0..nT

\* A completed task on a grid of two frequency windows and two time windows.
C10_Witness ==
    \E k \in Keys :
        /\ task[k].pc = "done"
        /\ Len(cfg.freqs) = 3
        /\ Len(cfg.times) = 3
        /\ task[k].tf_scores[2][2].stat = "mean"
        /\ task[k].tf_scores[2][2].win = 2

----------------------------------------------------------------------------
(* Properties of the run (checked under Spec and FairSpec).                *)

\* C3: the group analysis of a contrast does not begin until every decoding
\* task of that contrast has completed, successfully or with a failure; it
\* never runs while a task of the contrast is still running.
C3_BarrierBeforeGroup ==
    ga.pc # "idle" =>
        \A k \in Keys :
            /\ task[k].contrast = ga.contrast
            /\ task[k].pc \in {"done", "failed"}

\* The group analysis is reading artifacts after two tasks ended, one of them
\* with a failure.
C3_Witness ==
    /\ ga.pc = "load_tf"
    /\ \E k \in Keys : task[k].pc = "failed"
    /\ \E k \in Keys : task[k].pc = "done"

\* C4 as stated, its last part: the group analysis treats the output of a
\* failed task as missing (its slot of the stack is all NaN).
C4_FailedOutputTreatedMissing ==
    ga.pc \in {"conf_inter", "load_tf", "stats", "report", "done"} =>
        \A k \in Keys :
            task[k].pc = "failed" =>
                ga.all_freq_scores[(k[1] - 1) * cfg.nSes + k[2]]
                    = [j \in 1..(Len(cfg.freqs) - 1) |-> NaN]

\* C4 amended: a failure inside one decoding task is caught and logged; every
\* sibling task of the contrast still ends and the group analysis of the
\* contrast still runs; the group analysis treats as missing those arrays of
\* the failed task for which no file of the expected shape is on disk, and
\* loads an array that the task saved before it failed in a later step.
\* (The records of the wrapper only accumulate, so "from some point on, every
\* contrast with a failed task has the records of all its tasks and of its
\* group analysis" says that each failure is followed by them.)
C4_FailureIsolated ==
    /\ <>[](\A c \in {1, 2} :
              (\E r \in logs.runs : r.contrast = c /\ r.who # <<0, 0>> /\ ~r.success)
              => ( /\ \A k \in Keys : \E r \in logs.runs : r.contrast = c /\ r.who = k
                   /\ \E r \in logs.runs : r.contrast = c /\ r.who = <<0, 0>> ))
    /\ [](ga.pc \in {"conf_inter", "load_tf", "stats", "report", "done"} =>
            \A k \in Keys :
                task[k].pc = "failed" =>
                    LET f == files[<<ga.contrast, k[1], k[2]>>].freq_scores
                        slot == ga.all_freq_scores[(k[1] - 1) * cfg.nSes + k[2]]
                    IN  IF f.exists /\ f.shape = <<Len(cfg.freqs) - 1>>
                        THEN slot = f.arr
                        ELSE slot = [j \in 1..(Len(cfg.freqs) - 1) |-> NaN])

\* The group analysis completed although a task failed before saving anything;
\* its sibling completed and its scores are in the stack.
C4_Witness ==
    /\ ga.pc = "done"
    /\ \E k \in Keys :
          /\ task[k].pc = "failed"
          /\ ~files[<<ga.contrast, k[1], k[2]>>].freq_scores.exists
          /\ ga.all_freq_scores[(k[1] - 1) * cfg.nSes + k[2]][1] = NaN
    /\ \E k \in Keys :
          /\ task[k].pc = "done"
          /\ ga.all_freq_scores[(k[1] - 1) * cfg.nSes + k[2]][1].stat = "mean"

\* C5: for every subject x session whose score artifact is absent or of
\* another shape than expected, the aggregator puts an all-NaN array of the
\* expected shape in its slot and emits a warning; the other slots hold the
\* loaded arrays, and the stack has one slot per subject x session.
C5_MissingArtifactIsNaNSlot ==
    /\ ga.pc \in {"conf_inter", "load_tf", "stats", "report", "done"} =>
          /\ Len(ga.all_freq_scores) = cfg.nSub * cfg.nSes
          /\ \A k \in Keys :
                LET f == files[<<ga.contrast, k[1], k[2]>>].freq_scores
                    slot == ga.all_freq_scores[(k[1] - 1) * cfg.nSes + k[2]]
                IN  IF ~f.exists \/ f.shape # <<Len(cfg.freqs) - 1>>
                    THEN /\ slot = [j \in 1..(Len(cfg.freqs) - 1) |-> NaN]
                         /\ \E w \in logs.warning :
                               /\ w.who = k
                               /\ w.contrast = ga.contrast
                               /\ w.kind = "freq_scores"
                    ELSE slot = f.arr
    /\ ga.pc \in {"report", "done"} =>
          /\ Len(ga.X) = cfg.nSub * cfg.nSes
          /\ \A k \in Keys :
                LET f == files[<<ga.contrast, k[1], k[2]>>].tf_scores
                    slot == ga.X[(k[1] - 1) * cfg.nSes + k[2]]
                IN  IF ~f.exists \/ f.shape # <<Len(cfg.freqs) - 1, Len(cfg.times) - 1>>
                    THEN /\ slot = [j \in 1..(Len(cfg.freqs) - 1) |->
                                      [t \in 1..(Len(cfg.times) - 1) |-> NaN]]
                         /\ \E w \in logs.warning :
                               /\ w.who = k
                               /\ w.contrast = ga.contrast
                               /\ w.kind = "tf_scores"
                    ELSE slot = f.arr

\* The aggregation went on past an artifact of another shape (NaN slot, with
\* its warning) and past an absent one, and loaded a well-shaped one.
C5_Witness ==
    /\ ga.pc = "done"
    /\ \E k \in Keys :
          /\ files[<<ga.contrast, k[1], k[2]>>].freq_scores.exists
          /\ files[<<ga.contrast, k[1], k[2]>>].freq_scores.shape # <<Len(cfg.freqs) - 1>>
          /\ ga.all_freq_scores[(k[1] - 1) * cfg.nSes + k[2]][1] = NaN
          /\ \E w \in logs.warning : w.who = k /\ w.what = "shape mismatch"
    /\ \E k \in Keys :
          /\ files[<<ga.contrast, k[1], k[2]>>].tf_scores.exists
          /\ ga.X[(k[1] - 1) * cfg.nSes + k[2]][1][1].stat = "mean"

\* C6 as stated: the group analysis proceeds exactly when at least 2
\* subject x session units are available.
C6_ProceedsIffTwoUnits ==
    ga.pc \notin {"idle", "start"} =>
        (ga.pc = "returned" <=> cfg.nSub * cfg.nSes < 2)

\* C6 amended: the group analysis proceeds exactly when at least 2 subjects
\* are configured, whatever the number of sessions: with fewer than 2 subjects
\* it returns early with a warning and produces no statistics and no report;
\* with 2 or more it runs the aggregation and the tests.
C6_ProceedsIffTwoSubjects ==
    ga.pc \notin {"idle", "start"} =>
        /\ ga.pc = "returned" <=> cfg.nSub < 2
        /\ ga.pc = "returned" =>
              /\ \E w \in logs.warning : w.what = "one subject" /\ w.contrast = ga.contrast
              /\ ga.all_freq_scores = <<>>
              /\ ga.stats.N = 0
              /\ ga.X = <<>>
              /\ ~ga.report
        /\ ga.pc = "done" =>
              /\ Len(ga.all_freq_scores) = cfg.nSub * cfg.nSes
              /\ ga.stats.N = cfg.nSub
              /\ Len(ga.X) = cfg.nSub * cfg.nSes
              /\ ga.report

\* One subject with two sessions: the group analysis returned early.
C6_Witness ==
    /\ cfg.nSub = 1
    /\ cfg.nSes = 2
    /\ ga.pc = "returned"
    /\ \A k \in Keys : task[k].pc = "done"


----------------------------------------------------------------------------
(* Order of the steps and persistence of a decoding task (SpecTask).       *)

\* Positions of an entry in an operation log.
At(log, e) == { i \in DOMAIN log : log[i] = e }

\* Some entry e of the log lies before position i.
Before(log, e, i) == \E j \in At(log, e) : j < i

\* C13: within one decoding task, decimation happens at most once and before
\* the first frequency window is filtered; for each frequency window in grid
\* order the band is filtered and labelled and its frequency-only score is
\* written, only afterwards its time windows are evaluated in order, each
\* writing its own cell; all cells of a frequency window are written before
\* the next frequency window is filtered.
C13_StepOrder ==
    \A k \in Keys :
        LET ops == task[k].ops
            nT == n_time_windows
        IN  \A i \in DOMAIN ops :
                LET f == ops[i].band
                    t == ops[i].win
                IN  /\ ops[i].op = "decimate" => i = 1
                    /\ ops[i].op = "filter" =>
                          /\ At(ops, ops[i]) = {i}
                          /\ \A j \in 1..(i - 1) :
                                ops[j].op = "filter" => ops[j].band < f
                          /\ \A g \in 1..(f - 1) :
                                /\ Before(ops, Op("filter", g, 0), i)
                                /\ Before(ops, Op("write_freq", g, 0), i)
                                /\ \A u \in 1..nT :
                                      Before(ops, Op("write_tf", g, u), i)
                    /\ ops[i].op = "labels" => Before(ops, Op("filter", f, 0), i)
                    /\ ops[i].op = "write_freq" =>
                          /\ Before(ops, Op("labels", f, 0), i)
                          /\ \A j \in 1..(i - 1) : ops[j].band = f => ops[j].win = 0
                    /\ ops[i].op = "crop" =>
                          /\ Before(ops, Op("write_freq", f, 0), i)
                          /\ \A u \in 1..(t - 1) :
                                Before(ops, Op("write_tf", f, u), i)
                    /\ ops[i].op = "write_tf" =>
                          /\ At(ops, ops[i]) = {i}
                          /\ Before(ops, Op("crop", f, t), i)
                          /\ \A j \in 1..(i - 1) :
                                ops[j].op = "crop" /\ ops[j].band = f => ops[j].win <= t

\* A decimated task that has gone through two frequency windows of two time
\* windows each.
C13_Witness ==
    \E k \in Keys :
        /\ task[k].pc = "done"
        /\ task[k].ops[1].op = "decimate"
        /\ n_time_windows = 2
        /\ At(task[k].ops, Op("write_tf", 2, 2)) # {}

\* C15: after a task has ended, with success or with a failure at any step,
\* either all three arrays freq_scores, freq_scores_std and tf_scores of its
\* (subject, session, contrast) key were written by it or none was.
C15_ArtifactAllOrNothing ==
    \A k \in Keys :
        task[k].pc \in {"done", "failed"} =>
            LET a == files[FileKey(k)]
            IN  \/ a.freq_scores.exists /\ a.freq_scores_std.exists /\ a.tf_scores.exists
                \/ ~a.freq_scores.exists /\ ~a.freq_scores_std.exists /\ ~a.tf_scores.exists

----------------------------------------------------------------------------
(* Properties of the group statistics (checked under SpecGroup).           *)

\* The runs whose compute_conf_inter has returned.
WithStats == { r \in Runs : grp.run[r].pc \in {"stats", "p_clust", "done"} }

\* C11: two runs of the group analysis on the same stacked scores with the
\* same configured seed produce identical bootstrap standard errors and
\* confidence bounds and identical cluster masks and cluster p-values.
C11_SameSeedSameResult ==
    \A r1 \in Runs, r2 \in Runs :
        grp.run[r1].pc = "done" /\ grp.run[r2].pc = "done" =>
            /\ grp.run[r1].stats = grp.run[r2].stats
            /\ grp.run[r1].clusters = grp.run[r2].clusters
            /\ grp.run[r1].p_values = grp.run[r2].p_values

C14_PClustFromClusters ==
    \A r \in Runs :
        grp.run[r].pc = "done" =>
            LET run == grp.run[r]
            IN  /\ Len(run.p_clust) = n_freq_windows
                /\ Len(run.clusters) = Len(run.p_values)
                /\ \A f \in 1..n_freq_windows :
                      /\ Len(run.p_clust[f]) = n_time_windows
                      /\ \A t \in 1..n_time_windows :
                            /\ (\A c \in DOMAIN run.clusters : ~run.clusters[c][f][t])
                                  => run.p_clust[f][t] = One
                            /\ \A c \in DOMAIN run.clusters :
                                  run.clusters[c][f][t] =>
                                      run.p_clust[f][t] = run.p_values[c]
                /\ Len(run.clusters) = 0 =>
                      /\ \A f \in 1..n_freq_windows : \A t \in 1..n_time_windows :
                            run.p_clust[f][t] = One
                      /\ ~run.significant

\* A grid of two cells of which one is a cluster with a p-value below 1 and
\* the other lies in no cluster.
C14_Witness ==
    \E r \in Runs :
        /\ grp.run[r].pc = "done"
        /\ Len(grp.run[r].clusters) = 1
        /\ n_freq_windows * n_time_windows = 2
        /\ \E f \in 1..n_freq_windows, t \in 1..n_time_windows :
              /\ grp.run[r].clusters[1][f][t]
              /\ Lt(grp.run[r].p_clust[f][t], One)
        /\ \E f \in 1..n_freq_windows, t \in 1..n_time_windows :
              ~grp.run[r].clusters[1][f][t] /\ grp.run[r].p_clust[f][t] = One

\* C16: in the bootstrap every replicate of every frequency bin draws exactly
\* as many values as the stacked score array has rows, also when there is
\* more than one session.
C16_ResampleSizeIsRows ==
    \A r \in WithStats :
        /\ grp.run[r].resampled_shape[1] = cfg.n_boot
        /\ grp.run[r].resampled_shape[2] = Len(grp.all_freq_scores)

\* C17: for every frequency bin, mean_min and mean_max are the minimum and
\* the maximum of the scores of the slots that were loaded; an all-NaN
\* placeholder slot never changes them and never turns them into NaN.
C17_MinMaxOverLoaded ==
    \A r \in WithStats : \A b \in 1..n_freq_windows :
        LET col == Column(grp.all_freq_scores, b)
            loaded == { col[i][1] : i \in { j \in DOMAIN col : col[j] # NaNf } }
        IN  loaded # {} =>
                /\ grp.run[r].stats.mean_min[b] =
                      <<CHOOSE m \in loaded : \A x \in loaded : m <= x, Den>>
                /\ grp.run[r].stats.mean_max[b] =
                      <<CHOOSE m \in loaded : \A x \in loaded : m >= x, Den>>

============================================================================
